---- MODULE Spec2Model ----
(***************************************************************************)
(* LandmarksToKalidokitDataCalculator (mediapipe/calculators/util) and the *)
(* head-pose estimation its specification describes.                       *)
(*                                                                         *)
(* Two state machines share this module.                                   *)
(*   Spec      the calculator as it is in                                  *)
(*             landmarks_to_kalidokit_data_calculator.cc (the revision     *)
(*             with kFaceLandmarksTag = "FACE_LANDMARKS"): Open, then any   *)
(*             number of Process calls on input packets.                   *)
(*   SpecPose  the head-pose algorithm of the specification (sections 4    *)
(*             and 7), whose implementation is not among the sources: the  *)
(*             angle wrap function and the estimate built on it.           *)
(*                                                                         *)
(* Numbers.  The calculator's decimal literals (0.5, 0.8, ...) are kept in *)
(* tenths; width and height are whole numbers as in the source.            *)
(***************************************************************************)
EXTENDS Integers, Sequences, FiniteSets, TLC

VARIABLES
  opened,      \* Open has run (the framework calls it before any Process)
  offset,      \* the timestamp offset set by cc->SetOffset
  now,         \* the timestamp of the latest input packet
  outputs,     \* the packets added to the KALIDOKIT_DATA output stream
  calls,       \* every Process call so far: its input, status and emission
  poseCall,    \* SpecPose: the latest call, "estimate" or "wrap"
  poseIn,      \* SpecPose: the landmark list of the latest estimate call
  poseOut,     \* SpecPose: its outcome (a HeadPose or an error)
  angleIn,     \* SpecPose: the angle handed to the wrap function
  angleTurns,  \* SpecPose: full turns added to angleIn for the second angle
  wrapOut,     \* SpecPose: the wrap function's results for both angles
  contract,    \* SpecGraph: the latest GetContract call and its outcome
  app,         \* SpecGraph: HolisticTrackingGpu, "none", "ready" or "dead"
  delegate,    \* SpecGraph: HolisticTrackingGpu.delegate is set (not nil)
  delivered,   \* SpecGraph: the graph's callbacks so far
  received,    \* SpecGraph: the calls the TrackerDelegate has received
  pc,          \* SpecSteps: where each call of Process stands
  cc,          \* SpecSteps: each call's CalculatorContext
  locals,      \* SpecSteps: the pointer variables of the calls
  owning,      \* SpecSteps: raw pointers that carry a released object
  heap,        \* SpecSteps: the heap-allocated messages
  frees,       \* SpecSteps: how often each message has been deleted
  touched,     \* SpecSteps: the locations each call has read or written
  overlap      \* SpecSteps: a call took a step while another was under way

calcVars == <<opened, offset, now, outputs, calls>>
poseVars == <<poseCall, poseIn, poseOut, angleIn, angleTurns, wrapOut>>
graphVars == <<contract, app, delegate, delivered, received>>
vars == <<opened, offset, now, outputs, calls,
          poseCall, poseIn, poseOut, angleIn, angleTurns, wrapOut,
          contract, app, delegate, delivered, received,
          pc, cc, locals, owning, heap, frees, touched, overlap>>
stepVars == <<pc, cc, locals, owning, heap, frees, touched, overlap>>

\* What each machine leaves alone.
notCalcVars == <<poseVars, graphVars, stepVars>>
notPoseVars == <<calcVars, graphVars, stepVars>>
notGraphVars == <<calcVars, poseVars, stepVars>>
notStepVars == <<calcVars, poseVars, graphVars>>

(***************************************************************************)
(* Bounds of the model.                                                    *)
(***************************************************************************)
MaxCalls == 2        \* Process calls in one run
ShortLen == 10       \* the length of a landmark list that is too short
MaxTurns == 2        \* wrap inputs range over -MaxTurns..MaxTurns full turns
MaxDeliveries == 3   \* callbacks the graph makes in one run

(***************************************************************************)
(* Reference landmarks (specification, section 4.1 step 1).                *)
(***************************************************************************)
P1Index == 21
P2Index == 251
P3Index == 397
P4Index == 172
RefIndices == {P1Index, P2Index, P3Index, P4Index}

Max(S) == CHOOSE x \in S : \A y \in S : y <= x

\* The least length that lets all four reference indices be read.
MinLandmarks == Max(RefIndices) + 1

(***************************************************************************)
(* Floating-point values.  A value is a sign and a magnitude, so that +0   *)
(* and -0 are different values, as they are for atan2.  Coordinates are    *)
(* whole numbers of a grid unit, on which +, - and * are exact.            *)
(***************************************************************************)
Abs(i) == IF i < 0 THEN -i ELSE i

F(i) == [s |-> IF i < 0 THEN -1 ELSE 1, m |-> Abs(i)]

Val(a) == a.s * a.m

FNeg(a) == [s |-> -a.s, m |-> a.m]

\* IEEE 754 sum, round to nearest: an exact zero sum is +0 unless both
\* operands are -0.
FAdd(a, b) ==
  LET v == Val(a) + Val(b)
  IN IF v # 0 THEN F(v)
     ELSE IF a.s = -1 /\ b.s = -1 /\ a.m = 0 /\ b.m = 0
          THEN [s |-> -1, m |-> 0]
          ELSE [s |-> 1, m |-> 0]

FSub(a, b) == FAdd(a, FNeg(b))

FMul(a, b) == [s |-> a.s * b.s, m |-> a.m * b.m]

\* x / 2, exact on an even magnitude.
FHalf(a) == [s |-> a.s, m |-> a.m \div 2]

(***************************************************************************)
(* 3-D vectors of floating-point values (Eigen::Vector3d in the final      *)
(* revision's header, part_001).                                           *)
(***************************************************************************)
FVec(p) == <<F(p[1]), F(p[2]), F(p[3])>>

VAdd(u, v) == <<FAdd(u[1], v[1]), FAdd(u[2], v[2]), FAdd(u[3], v[3])>>

VSub(u, v) == <<FSub(u[1], v[1]), FSub(u[2], v[2]), FSub(u[3], v[3])>>

VHalf(u) == <<FHalf(u[1]), FHalf(u[2]), FHalf(u[3])>>

\* u x v, each component a difference of two products.
Cross(u, v) ==
  <<FSub(FMul(u[2], v[3]), FMul(u[3], v[2])),
    FSub(FMul(u[3], v[1]), FMul(u[1], v[3])),
    FSub(FMul(u[1], v[2]), FMul(u[2], v[1]))>>

\* The square of the norm, a whole number.
NormSq(u) == u[1].m * u[1].m + u[2].m * u[2].m + u[3].m * u[3].m

(***************************************************************************)
(* Landmark lists.  Only the four reference landmarks are ever read, so a  *)
(* list is its length and the landmarks at the reference indices it holds. *)
(***************************************************************************)
Held(n) == {i \in RefIndices : i < n}

ListsOver(points, lens) ==
  UNION {{[size |-> n, at |-> f] : f \in [Held(n) -> points]} : n \in lens}

\* The points of the calculator's inputs: enough for the specification's
\* scale scenario (p1 = (0,0,0), p2 = (2,0,0), p3mid = (1,1,0)) and for
\* coincident and collinear reference points.
CalcPoints == {<<0, 0, 0>>, <<2, 0, 0>>, <<1, 1, 0>>}

CalcLens == {ShortLen, MinLandmarks - 1, MinLandmarks}

CalcLists == ListsOver(CalcPoints, CalcLens)

\* A packet of the FACE_LANDMARKS stream: empty, or a landmark list.
EmptyList == [size |-> 0, at |-> [i \in Held(0) |-> <<0, 0, 0>>]]

EmptyPacket == [empty |-> TRUE, landmarks |-> EmptyList]

InputPackets ==
  {EmptyPacket} \cup {[empty |-> FALSE, landmarks |-> l] : l \in CalcLists}

(***************************************************************************)
(* The protobuf messages of Process: HeadData_Degrees, HeadData and        *)
(* KalidokitData, each as absl::make_unique leaves it (fields zero,        *)
(* sub-messages absent) and then as the setters fill it.                   *)
(***************************************************************************)
kDegreesX == 5       \* 0.5
kDegreesY == 4       \* 0.4
kDegreesZ == 3       \* 0.3
kHeadX == 8          \* 0.8
kHeadY == 7          \* 0.7
kHeadZ == 6          \* 0.6
kWidth == 100
kHeight == 200

NewDegrees == [x |-> 0, y |-> 0, z |-> 0]

NewHeadData ==
  [x |-> 0, y |-> 0, z |-> 0, width |-> 0, height |-> 0,
   has_degrees |-> FALSE, degrees |-> NewDegrees]

NewKalidokitData == [has_head_data |-> FALSE, head_data |-> NewHeadData]

\* head_data_degrees after set_x, set_y, set_z.
head_data_degrees ==
  [NewDegrees EXCEPT !.x = kDegreesX, !.y = kDegreesY, !.z = kDegreesZ]

\* A slip in set_width: a negative width.
NegativeSizeHeadData ==
  [NewHeadData EXCEPT !.has_degrees = TRUE, !.degrees = head_data_degrees,
                      !.x = kHeadX, !.y = kHeadY, !.z = kHeadZ,
                      !.width = -kWidth, !.height = kHeight]

\* head_data after set_allocated_degrees and its five setters.
head_data ==
  [NewHeadData EXCEPT !.has_degrees = TRUE, !.degrees = head_data_degrees,
                      !.x = kHeadX, !.y = kHeadY, !.z = kHeadZ,
                      !.width = kWidth, !.height = kHeight]

\* A slip that lets an earlier call show in a later one's result.
StatefulKalidokitData(landmarks) ==
  [NewKalidokitData EXCEPT
     !.has_head_data = TRUE,
     !.head_data = [head_data EXCEPT !.width = kWidth + Len(outputs)]]

\* A slip that emits the message before set_allocated_head_data.
HeadlessKalidokitData(landmarks) == NewKalidokitData

\* kalidokit_data after set_allocated_head_data.  The landmark list is
\* bound to a reference (line 156) that nothing reads.
kalidokit_data(landmarks) ==
  [NewKalidokitData EXCEPT !.has_head_data = TRUE, !.head_data = head_data]

(***************************************************************************)
(* The calculator.                                                         *)
(***************************************************************************)
\* Open: cc->SetOffset(TimestampDiff(0)); returns OK.
Open ==
  /\ ~opened
  /\ opened' = TRUE
  /\ offset' = 0
  /\ UNCHANGED <<now, outputs, calls>>
  /\ UNCHANGED notCalcVars

\* A slip that adds the message twice.
EmittedTwice(packet, ts) ==
  IF packet.empty
  THEN <<>>
  ELSE <<[data |-> kalidokit_data(packet.landmarks), ts |-> ts],
         [data |-> kalidokit_data(packet.landmarks), ts |-> ts]>>

\* A slip that stamps the message with the timestamp after the input's.
EmittedLate(packet, ts) ==
  IF packet.empty
  THEN <<>>
  ELSE <<[data |-> kalidokit_data(packet.landmarks), ts |-> ts + 1]>>

\* What one Process call adds to KALIDOKIT_DATA: nothing for an empty
\* packet (the early return), and otherwise kalidokit_data at
\* cc->InputTimestamp().
Emitted(packet, ts) ==
  IF packet.empty
  THEN <<>>
  ELSE <<[data |-> kalidokit_data(packet.landmarks), ts |-> ts]>>

\* Process on one input packet, whose timestamp follows the last one's.
\* An empty packet returns OK and adds nothing; any other packet adds one
\* KalidokitData at the input timestamp and returns OK.
Process(packet) ==
  /\ opened
  /\ Len(calls) < MaxCalls
  /\ now' = now + 1
  /\ LET added == Emitted(packet, now')
     IN /\ outputs' = outputs \o added
        /\ calls' = Append(calls,
                           [input |-> packet, ts |-> now', status |-> "OK",
                            out |-> [k \in 1..Len(added) |-> added[k].data]])
  /\ UNCHANGED <<opened, offset>>
  /\ UNCHANGED notCalcVars

CalcInit ==
  /\ opened = FALSE
  /\ offset = 0
  /\ now = 0
  /\ outputs = <<>>
  /\ calls = <<>>

(***************************************************************************)
(* The head-pose algorithm (specification, sections 4.1 and 7).            *)
(*                                                                         *)
(* Angles are whole numbers of pi/4, so PI is 4 units; a normalized angle  *)
(* (angle / pi) is kept in hundredths, so 1.0 is NormOne.  Inputs are      *)
(* kept to those whose angles are whole numbers of pi/4.                   *)
(***************************************************************************)
PI == 4
TWO_PI == 2 * PI
HALF_PI == PI \div 2
NormOne == 100

\* fmod: the remainder has the sign of the dividend.
Fmod(a, b) == IF a >= 0 THEN a % b ELSE -((-a) % b)

\* A slip in the first branch: 2 pi added where it is to be subtracted.
WrapStepAdds(a) ==
  LET r == Fmod(a, TWO_PI)
  IN IF r > PI THEN r + TWO_PI ELSE IF r < -PI THEN r + TWO_PI ELSE r

\* A slip in the first comparison: +pi itself is taken to -pi.
WrapStepAtPi(a) ==
  LET r == Fmod(a, TWO_PI)
  IN IF r >= PI THEN r - TWO_PI ELSE IF r < -PI THEN r + TWO_PI ELSE r

\* Step 4 before the division: reduce modulo 2 pi; above +pi subtract
\* 2 pi; below -pi add 2 pi; otherwise unchanged.
WrapStep(a) ==
  LET r == Fmod(a, TWO_PI)
  IN IF r > PI THEN r - TWO_PI ELSE IF r < -PI THEN r + TWO_PI ELSE r

\* A slip in the divisor: pi / 2 for pi.
NormalizeAngleHalfPi(a) == (WrapStep(a) * NormOne) \div HALF_PI

\* Step 4: the wrapped angle divided by pi.
NormalizeAngle(a) == (WrapStep(a) * NormOne) \div PI

\* atan2(y, x) where it is a whole number of pi/4: on an axis (a zero y
\* gives 0 or +-pi by the sign of x, and the sign of the zero picks +pi or
\* -pi) and on a diagonal.
ExactAtan2(y, x) == y.m = 0 \/ x.m = 0 \/ y.m = x.m

Atan2(y, x) ==
  IF y.m = 0 THEN (IF x.s = 1 THEN 0 ELSE y.s * PI)
  ELSE IF x.m = 0 THEN y.s * HALF_PI
  ELSE IF x.s = 1 THEN y.s * (PI \div 4)
  ELSE y.s * (PI - PI \div 4)

\* asin(normalize(v).x) where it is a whole number of pi/4.  The argument
\* v.x / |v| is within [-1, 1], so the clamp of section 4.1 changes nothing.
ExactAsinUnitX(v) ==
  \/ v[1].m = 0
  \/ v[2].m = 0 /\ v[3].m = 0
  \/ v[1].m * v[1].m = v[2].m * v[2].m + v[3].m * v[3].m

AsinUnitX(v) ==
  IF v[1].m = 0 THEN 0
  ELSE IF v[2].m = 0 /\ v[3].m = 0 THEN v[1].s * HALF_PI
  ELSE v[1].s * (PI \div 4)

\* Steps 1 and 2: the reference points, p3mid and the edge vectors.
P1(l) == FVec(l.at[P1Index])
P2(l) == FVec(l.at[P2Index])
P3(l) == FVec(l.at[P3Index])
P4(l) == FVec(l.at[P4Index])
P3Mid(l) == VHalf(VAdd(P3(l), P4(l)))
Qb(l) == VSub(P2(l), P1(l))
Qc(l) == VSub(P3Mid(l), P1(l))

\* n = qb x qc.  unitZ = normalize(n) and unitX = normalize(qb) divide by a
\* positive norm, which keeps every sign (of a zero too) and every ratio
\* of components, so the angles are read from n and qb.
PlaneNormal(l) == Cross(Qb(l), Qc(l))

\* Coincident or collinear reference points: qb or n has zero length.
Degenerate(l) == NormSq(Qb(l)) = 0 \/ NormSq(PlaneNormal(l)) = 0

\* Step 3: alpha = atan2(-unitZ.y, unitZ.z), beta = asin(unitZ.x),
\* gamma = atan2(-unitX.y, unitX.x).
Alpha(l) == Atan2(FNeg(PlaneNormal(l)[2]), PlaneNormal(l)[3])
Beta(l) == AsinUnitX(PlaneNormal(l))
Gamma(l) == Atan2(FNeg(Qb(l)[2]), Qb(l)[1])

\* Steps 4 and 5: each angle normalized, then x and z negated.
RotationNormalized(l) ==
  <<-NormalizeAngle(Alpha(l)), NormalizeAngle(Beta(l)),
    -NormalizeAngle(Gamma(l))>>

\* Steps 6 and 7.  width and height are kept as squares (height as four
\* times its square) and position in quarters of a grid unit:
\* position = (midPoint + p2) / 2 = (p1 + 3 p2) / 4.
HeadPose(l) ==
  LET r == RotationNormalized(l)
      p1 == l.at[P1Index]
      p2 == l.at[P2Index]
  IN [rotationRadiansNormalized |-> r,
      rotationDegrees |-> <<(r[1] * 180) \div NormOne, (r[2] * 180) \div NormOne,
                            (r[3] * 180) \div NormOne>>,
      rotationRadians |-> <<(r[1] * PI) \div NormOne, (r[2] * PI) \div NormOne,
                            (r[3] * PI) \div NormOne>>,
      position4 |-> <<p1[1] + 3 * p2[1], p1[2] + 3 * p2[2], p1[3] + 3 * p2[3]>>,
      widthSq |-> NormSq(VSub(P1(l), P2(l))),
      height4Sq |-> NormSq(VSub(VAdd(P1(l), P2(l)), VAdd(P3(l), P4(l))))]

\* estimate(landmarks): a HeadPose, or one of the two errors of section 7.
Estimate(l) ==
  IF l.size < MinLandmarks
  THEN [status |-> "InsufficientLandmarksError", pose |-> <<>>]
  ELSE IF Degenerate(l)
  THEN [status |-> "DegenerateGeometryError", pose |-> <<>>]
  ELSE [status |-> "OK", pose |-> <<HeadPose(l)>>]

(***************************************************************************)
(* The inputs of the estimate: landmark lists over a small grid, kept to   *)
(* those the model computes exactly (p3 + p4 even in every coordinate, and *)
(* every angle a whole number of pi/4).                                    *)
(***************************************************************************)
MaxCoord == 2        \* grid coordinates x and y range over 0..MaxCoord

PoseDepths == {0, 1}

PosePoints == {<<x, y, z>> : x \in 0..MaxCoord, y \in 0..MaxCoord, z \in PoseDepths}

EvenSum(p, q) == \A i \in 1..3 : (p[i] + q[i]) % 2 = 0

EvenPairs(points) == {pq \in points \X points : EvenSum(pq[1], pq[2])}

FullList(p1, p2, p3, p4) ==
  [size |-> MinLandmarks,
   at |-> (P1Index :> p1 @@ P2Index :> p2 @@ P3Index :> p3 @@ P4Index :> p4)]

ShortList == [size |-> ShortLen, at |-> [i \in Held(ShortLen) |-> <<0, 0, 0>>]]

Computable(l) ==
  LET qb == Qb(l)
      n == Cross(qb, Qc(l))
  IN \/ NormSq(qb) = 0
     \/ NormSq(n) = 0
     \/ /\ ExactAsinUnitX(n)
        /\ ExactAtan2(n[2], n[3])
        /\ ExactAtan2(qb[2], qb[1])

PoseLists(points) ==
  {ShortList} \cup
  {l \in {FullList(p1, p2, pq[1], pq[2]) :
            p1 \in points, p2 \in points, pq \in EvenPairs(points)} :
     Computable(l)}

\* The angles handed to the wrap function: up to MaxTurns full turns
\* either way, in steps of pi/4.
WrapAngles == (-(MaxTurns * TWO_PI))..(MaxTurns * TWO_PI)

NoWrap == [first |-> 0, second |-> 0, twice |-> 0, norm1 |-> 0, norm2 |-> 0]

NoPose == [status |-> "none", pose |-> <<>>]

\* One estimate call, on any of the input lists.
EstimateCall ==
  /\ poseCall = "none"
  /\ \E l \in PoseLists(PosePoints) :
       /\ poseIn' = l
       /\ poseOut' = Estimate(l)
  /\ poseCall' = "estimate"
  /\ angleIn' = 0
  /\ angleTurns' = 0
  /\ wrapOut' = NoWrap
  /\ UNCHANGED notPoseVars

\* The wrap function on an angle a and on a + k full turns, and the wrap
\* step applied once and twice.
WrapCall ==
  /\ poseCall = "none"
  /\ \E a \in WrapAngles, k \in (-MaxTurns)..MaxTurns :
       /\ angleIn' = a
       /\ angleTurns' = k
       /\ wrapOut' = [first |-> WrapStep(a),
                      second |-> WrapStep(a + k * TWO_PI),
                      twice |-> WrapStep(WrapStep(a)),
                      norm1 |-> NormalizeAngle(a),
                      norm2 |-> NormalizeAngle(a + k * TWO_PI)]
  /\ poseCall' = "wrap"
  /\ poseIn' = EmptyList
  /\ poseOut' = NoPose
  /\ UNCHANGED notPoseVars

PoseInit ==
  /\ poseCall = "none"
  /\ poseIn = EmptyList
  /\ poseOut = NoPose
  /\ angleIn = 0
  /\ angleTurns = 0
  /\ wrapOut = NoWrap

(***************************************************************************)
(* The graph host: it asks the calculator for its contract, and it calls   *)
(* HolisticTrackingGpu (an MPPGraphDelegate) back with what the graph's    *)
(* output streams carry.                                                   *)
(***************************************************************************)
kFaceLandmarksTag == "FACE_LANDMARKS"
kKalidokitDataTag == "KALIDOKIT_DATA"

\* The tags a node's configuration may give its streams.
InputTags == {kFaceLandmarksTag, "NORM_LANDMARKS", "LANDMARKS"}
OutputTags == {kKalidokitDataTag}

NodeConfigs == [inputs : SUBSET InputTags, outputs : SUBSET OutputTags]

\* The example of the calculator's header:
\*   input_stream: "NORM_LANDMARKS:landmarks"
\*   output_stream: "KALIDOKIT_DATA:kalidokit_data"
ExampleConfig == [inputs |-> {"NORM_LANDMARKS"}, outputs |-> {kKalidokitDataTag}]

NoTypes == [inputs |-> {}, outputs |-> {}]

\* GetContract: both RET_CHECKs, then the packet types of the two tags.
GetContract(cfg) ==
  IF kFaceLandmarksTag \notin cfg.inputs
  THEN [status |-> "InternalError", types |-> NoTypes]
  ELSE IF kKalidokitDataTag \notin cfg.outputs
  THEN [status |-> "InternalError", types |-> NoTypes]
  ELSE [status |-> "OK",
        types |-> [inputs |-> {<<kFaceLandmarksTag, "NormalizedLandmarkList">>},
                   outputs |-> {<<kKalidokitDataTag, "KalidokitData">>}]]

NoContract ==
  [config |-> [inputs |-> {}, outputs |-> {}], status |-> "none",
   types |-> NoTypes]

\* The graph validates a node of some configuration, once, when it is
\* initialised.
GetContractCall ==
  /\ contract.status = "none"
  /\ \E cfg \in NodeConfigs :
       contract' = [config |-> cfg, status |-> GetContract(cfg).status,
                    types |-> GetContract(cfg).types]
  /\ UNCHANGED <<app, delegate, delivered, received>>
  /\ UNCHANGED notGraphVars

\* HolisticTrackingGpu init: the stream names.
graphOutputStream == "output_video"
kKalidokitOutputStream == "kalidokit_data"

\* The stream names a callback may carry.
StreamNames == {graphOutputStream, kKalidokitOutputStream, "face_landmarks"}

\* init: the names are set and the object becomes the graph's delegate;
\* its own delegate (a weak property) is nil.
AppInit ==
  /\ app = "none"
  /\ app' = "ready"
  /\ delegate' = FALSE
  /\ UNCHANGED <<contract, delivered, received>>
  /\ UNCHANGED notGraphVars

\* The client sets the delegate property, or the weak reference goes nil.
SetDelegate(d) ==
  /\ app = "ready"
  /\ delegate # d
  /\ delegate' = d
  /\ UNCHANGED <<contract, app, delivered, received>>
  /\ UNCHANGED notGraphVars

\* dealloc: mediapipeGraph.delegate = nil and the graph is cancelled, so no
\* callback follows.
Dealloc ==
  /\ app = "ready"
  /\ app' = "dead"
  /\ UNCHANGED <<contract, delegate, delivered, received>>
  /\ UNCHANGED notGraphVars

\* A slip that drops the comparison of the stream name.
ForwardsAnyPixelBuffer(streamName) == TRUE

\* mediapipeGraph:didOutputPixelBuffer:fromStream: forwards when
\* streamName == self.graphOutputStream.
ForwardsPixelBuffer(streamName) == streamName = graphOutputStream

\* mediapipeGraph:didOutputPacket:fromStream: forwards nothing: on the
\* kalidokit_data stream an empty packet is logged, and for any other
\* packet the body is commented out.
ForwardsPacket(streamName, empty) == FALSE

\* A message sent to a nil delegate does nothing.
DelegateCalls(method, id) ==
  IF delegate THEN <<[method |-> method, id |-> id]>> ELSE <<>>

\* The graph calls back with a pixel buffer from a stream.
DidOutputPixelBuffer(streamName) ==
  /\ app = "ready"
  /\ Len(delivered) < MaxDeliveries
  /\ LET id == Len(delivered) + 1
     IN /\ delivered' = Append(delivered,
                               [kind |-> "pixelBuffer", stream |-> streamName,
                                empty |-> FALSE, id |-> id,
                                delegate |-> delegate])
        /\ received' =
             IF ForwardsPixelBuffer(streamName)
             THEN received \o DelegateCalls("didOutputPixelBuffer", id)
             ELSE received
  /\ UNCHANGED <<contract, app, delegate>>
  /\ UNCHANGED notGraphVars

\* The graph calls back with a packet, empty or not, from a stream.
DidOutputPacket(streamName, empty) ==
  /\ app = "ready"
  /\ Len(delivered) < MaxDeliveries
  /\ LET id == Len(delivered) + 1
     IN /\ delivered' = Append(delivered,
                               [kind |-> "packet", stream |-> streamName,
                                empty |-> empty, id |-> id,
                                delegate |-> delegate])
        /\ received' =
             IF ForwardsPacket(streamName, empty)
             THEN received \o DelegateCalls("didOutputKalidokitData", id)
             ELSE received
  /\ UNCHANGED <<contract, app, delegate>>
  /\ UNCHANGED notGraphVars

GraphInit ==
  /\ contract = NoContract
  /\ app = "none"
  /\ delegate = FALSE
  /\ delivered = <<>>
  /\ received = <<>>

(***************************************************************************)
(* Process statement by statement: calls that run at the same time, each   *)
(* on its own CalculatorContext, with the unique_ptr and raw pointer       *)
(* variables of the body and the messages they point to.                   *)
(***************************************************************************)
Threads == {1, 2}

MessageTypes == {"KalidokitData", "HeadData", "HeadData_Degrees"}

\* A message's address: the call that allocated it and its type.
ObjIds == Threads \X MessageTypes

Null == <<0, "nullptr">>

UniquePtrs == {"kalidokit_data", "head_data", "head_data_degrees"}
RawPtrs == {"head_data_degrees_pointer", "head_data_pointer"}

Cells == Threads \X (UniquePtrs \cup RawPtrs)

\* A slip that gives the body's variables static storage: one cell for
\* all calls.
StaticLocal(t, name) == <<1, name>>

\* The body's variables have automatic storage: a cell per call.
Local(t, name) == <<t, name>>

\* The CalculatorContext of a call, as a location.
Context(t) == <<t, "cc">>

\* A message as the heap holds it: the scalar fields and the one
\* sub-message pointer of its type.
NewObject ==
  [state |-> "live", x |-> 0, y |-> 0, z |-> 0, width |-> 0, height |-> 0,
   sub |-> Null]

NoObject == [NewObject EXCEPT !.state = "unallocated"]

\* A message and the sub-messages its destructor deletes with it.
Chain(h, p) ==
  LET s1 == IF p \in ObjIds THEN h[p].sub ELSE Null
      s2 == IF s1 \in ObjIds THEN h[s1].sub ELSE Null
  IN {p, s1, s2} \cap ObjIds

\* delete p.
Deleted(h, p) ==
  [o \in ObjIds |->
     IF o \in Chain(h, p) THEN [h[o] EXCEPT !.state = "deleted"] ELSE h[o]]

Freed(f, h, p) ==
  [o \in ObjIds |-> IF o \in Chain(h, p) THEN f[o] + 1 ELSE f[o]]

\* The older revision's unique_ptr::get(): the pointer is handed out and
\* the unique_ptr keeps the object.
get(ls, c) == [locals |-> ls, ptr |-> ls[c], owned |-> FALSE]

\* unique_ptr::release(): the unique_ptr becomes null and the caller gets
\* the pointer and the duty to delete.
release(ls, c) ==
  [locals |-> [ls EXCEPT ![c] = Null], ptr |-> ls[c], owned |-> ls[c] # Null]

\* The inputs of the concurrent calls, and their timestamps.
StepPackets ==
  {p \in InputPackets :
     \A i \in DOMAIN p.landmarks.at : p.landmarks.at[i] = <<0, 0, 0>>}

StepStamps == 1..MaxCalls

Busy(t) == pc[t] \notin {"idle", "done"}

\* What every step of call t does besides its statement.
Step(t, next, locations) ==
  /\ pc' = [pc EXCEPT ![t] = next]
  /\ touched' = [touched EXCEPT ![t] = @ \cup locations]
  /\ overlap' = (overlap \/ \E u \in Threads \ {t} : Busy(u))

\* Dereferencing a null pointer ends the call.
Crash(t) ==
  /\ cc' = [cc EXCEPT ![t].status = "crashed"]
  /\ Step(t, "done", {})
  /\ UNCHANGED <<locals, owning, heap, frees>>

\* The framework calls Process(cc) with an input packet at a timestamp.
Call(t, packet, ts) ==
  /\ pc[t] = "idle"
  /\ cc' = [cc EXCEPT ![t].input = packet, ![t].ts = ts]
  /\ Step(t, "empty_check", {Context(t)})
  /\ UNCHANGED <<locals, owning, heap, frees>>
  /\ UNCHANGED notStepVars

\* Lines 150-157: return OK on an empty packet, else bind the landmarks.
EmptyCheck(t) ==
  /\ pc[t] = "empty_check"
  /\ IF cc[t].input.empty
     THEN /\ cc' = [cc EXCEPT ![t].status = "OK"]
          /\ Step(t, "done", {Context(t)})
     ELSE /\ cc' = cc
          /\ Step(t, "make_kalidokit_data", {Context(t)})
  /\ UNCHANGED <<locals, owning, heap, frees>>
  /\ UNCHANGED notStepVars

\* auto name = absl::make_unique<type>(): a new message, and the unique_ptr
\* deletes what it held before.
MakeUnique(t, name, type, next) ==
  LET c == Local(t, name)
      o == <<t, type>>
  IN /\ heap' = [Deleted(heap, locals[c]) EXCEPT ![o] = NewObject]
     /\ frees' = Freed(frees, heap, locals[c])
     /\ locals' = [locals EXCEPT ![c] = o]
     /\ Step(t, next, {c, o})
     /\ UNCHANGED <<cc, owning>>

\* Line 165.
MakeKalidokitData(t) ==
  /\ pc[t] = "make_kalidokit_data"
  /\ MakeUnique(t, "kalidokit_data", "KalidokitData", "make_head_data")
  /\ UNCHANGED notStepVars

\* Line 166.
MakeHeadData(t) ==
  /\ pc[t] = "make_head_data"
  /\ MakeUnique(t, "head_data", "HeadData", "make_head_data_degrees")
  /\ UNCHANGED notStepVars

\* Line 167.
MakeHeadDataDegrees(t) ==
  /\ pc[t] = "make_head_data_degrees"
  /\ MakeUnique(t, "head_data_degrees", "HeadData_Degrees", "set_degrees")
  /\ UNCHANGED notStepVars

\* Lines 169-171: head_data_degrees->set_x, set_y, set_z.
SetDegrees(t) ==
  /\ pc[t] = "set_degrees"
  /\ LET c == Local(t, "head_data_degrees")
         p == locals[c]
     IN IF p \notin ObjIds
        THEN Crash(t)
        ELSE /\ heap' = [heap EXCEPT ![p].x = kDegreesX, ![p].y = kDegreesY,
                                     ![p].z = kDegreesZ]
             /\ Step(t, "release_degrees", {c, p})
             /\ UNCHANGED <<cc, locals, owning, frees>>
  /\ UNCHANGED notStepVars

\* pointer = name.release(): lines 172 and 180.
ReleaseTo(t, name, pointer, next) ==
  LET c == Local(t, name)
      r == Local(t, pointer)
      got == release(locals, c)
  IN /\ locals' = [got.locals EXCEPT ![r] = got.ptr]
     /\ owning' = IF got.owned THEN owning \cup {r} ELSE owning \ {r}
     /\ Step(t, next, {c, r})
     /\ UNCHANGED <<cc, heap, frees>>

\* Line 172.
ReleaseDegrees(t) ==
  /\ pc[t] = "release_degrees"
  /\ ReleaseTo(t, "head_data_degrees", "head_data_degrees_pointer",
               "set_allocated_degrees")
  /\ UNCHANGED notStepVars

\* parent->set_allocated_...(pointer): the parent message takes the
\* sub-message over from the pointer (lines 174 and 182).  The parent is
\* new, so it holds no earlier sub-message to delete.
SetAllocated(t, parent, pointer, next) ==
  LET c == Local(t, parent)
      r == Local(t, pointer)
      p == locals[c]
  IN IF p \notin ObjIds
     THEN Crash(t)
     ELSE /\ heap' = [heap EXCEPT ![p].sub = locals[r]]
          /\ owning' = owning \ {r}
          /\ Step(t, next, {c, r, p})
          /\ UNCHANGED <<cc, locals, frees>>

\* Line 174.
SetAllocatedDegrees(t) ==
  /\ pc[t] = "set_allocated_degrees"
  /\ SetAllocated(t, "head_data", "head_data_degrees_pointer", "set_head_data")
  /\ UNCHANGED notStepVars

\* Lines 175-179: head_data->set_x, set_y, set_z, set_width, set_height.
SetHeadData(t) ==
  /\ pc[t] = "set_head_data"
  /\ LET c == Local(t, "head_data")
         p == locals[c]
     IN IF p \notin ObjIds
        THEN Crash(t)
        ELSE /\ heap' = [heap EXCEPT ![p].x = kHeadX, ![p].y = kHeadY,
                                     ![p].z = kHeadZ, ![p].width = kWidth,
                                     ![p].height = kHeight]
             /\ Step(t, "release_head_data", {c, p})
             /\ UNCHANGED <<cc, locals, owning, frees>>
  /\ UNCHANGED notStepVars

\* Line 180.
ReleaseHeadData(t) ==
  /\ pc[t] = "release_head_data"
  /\ ReleaseTo(t, "head_data", "head_data_pointer", "set_allocated_head_data")
  /\ UNCHANGED notStepVars

\* Line 182.
SetAllocatedHeadData(t) ==
  /\ pc[t] = "set_allocated_head_data"
  /\ SetAllocated(t, "kalidokit_data", "head_data_pointer", "add")
  /\ UNCHANGED notStepVars

\* Lines 184-186: Add(kalidokit_data.release(), cc->InputTimestamp()); the
\* output packet takes the message over.
OutputsAdd(t) ==
  /\ pc[t] = "add"
  /\ LET c == Local(t, "kalidokit_data")
         got == release(locals, c)
     IN /\ locals' = got.locals
        /\ cc' = [cc EXCEPT ![t].outputs =
                     Append(@, [ptr |-> got.ptr, ts |-> cc[t].ts])]
        /\ Step(t, "return", {c, Context(t)})
  /\ UNCHANGED <<owning, heap, frees>>
  /\ UNCHANGED notStepVars

\* Lines 187-188: return OK; the three unique_ptrs are destroyed in the
\* reverse of their order of declaration, each deleting what it still
\* holds, and the raw pointers go out of scope.
Return(t) ==
  /\ pc[t] = "return"
  /\ LET d == locals[Local(t, "head_data_degrees")]
         h == locals[Local(t, "head_data")]
         k == locals[Local(t, "kalidokit_data")]
         heap1 == Deleted(heap, d)
         heap2 == Deleted(heap1, h)
         mine == {Local(t, n) : n \in UniquePtrs \cup RawPtrs}
     IN /\ heap' = Deleted(heap2, k)
        /\ frees' = Freed(Freed(Freed(frees, heap, d), heap1, h), heap2, k)
        /\ locals' = [c \in Cells |-> IF c \in mine THEN Null ELSE locals[c]]
        /\ owning' = owning \ mine
        /\ Step(t, "done", mine)
  /\ cc' = [cc EXCEPT ![t].status = "OK"]
  /\ UNCHANGED notStepVars

NoCall == [input |-> EmptyPacket, ts |-> 0, outputs |-> <<>>, status |-> "none"]

StepInit ==
  /\ pc = [t \in Threads |-> "idle"]
  /\ cc = [t \in Threads |-> NoCall]
  /\ locals = [c \in Cells |-> Null]
  /\ owning = {}
  /\ heap = [o \in ObjIds |-> NoObject]
  /\ frees = [o \in ObjIds |-> 0]
  /\ touched = [t \in Threads |-> {}]
  /\ overlap = FALSE

(***************************************************************************)
(* The specifications.                                                     *)
(***************************************************************************)
Init == CalcInit /\ PoseInit /\ GraphInit /\ StepInit

Next ==
  \/ Open
  \/ \E packet \in InputPackets : Process(packet)

Spec == Init /\ [][Next]_vars

PoseNext ==
  \/ EstimateCall
  \/ WrapCall

SpecPose == Init /\ [][PoseNext]_vars

GraphNext ==
  \/ GetContractCall
  \/ AppInit
  \/ \E d \in BOOLEAN : SetDelegate(d)
  \/ Dealloc
  \/ \E n \in StreamNames : DidOutputPixelBuffer(n)
  \/ \E n \in StreamNames, e \in BOOLEAN : DidOutputPacket(n, e)

SpecGraph == Init /\ [][GraphNext]_vars

StepNext ==
  \E t \in Threads :
    \/ \E packet \in StepPackets, ts \in StepStamps : Call(t, packet, ts)
    \/ EmptyCheck(t)
    \/ MakeKalidokitData(t)
    \/ MakeHeadData(t)
    \/ MakeHeadDataDegrees(t)
    \/ SetDegrees(t)
    \/ ReleaseDegrees(t)
    \/ SetAllocatedDegrees(t)
    \/ SetHeadData(t)
    \/ ReleaseHeadData(t)
    \/ SetAllocatedHeadData(t)
    \/ OutputsAdd(t)
    \/ Return(t)

SpecSteps == Init /\ [][StepNext]_vars

(***************************************************************************)
(* Claims about the calculator (under Spec).                               *)
(***************************************************************************)
\* The calls made on a landmark list (a non-empty packet).
ListCalls == {i \in DOMAIN calls : ~calls[i].input.empty}

\* The calls made on a list that holds all four reference landmarks.
FullCalls == {i \in ListCalls : calls[i].input.landmarks.size >= MinLandmarks}

\* Every sub-message of the KalidokitData that Process builds is set.
Complete(d) == d.has_head_data /\ d.head_data.has_degrees

\* C1: Process on a landmark list too short to hold the reference indices
\* (fewer than 398 landmarks, such as 10) fails with
\* InsufficientLandmarksError and emits nothing.
C1_ShortInputRejected ==
  \A i \in ListCalls :
    calls[i].input.landmarks.size < MinLandmarks =>
      /\ calls[i].status = "InsufficientLandmarksError"
      /\ calls[i].out = <<>>

\* Coincident or collinear reference points, read off the list itself:
\* qb = p2 - p1 is zero, or qb x (p3 + p4 - 2 p1), twice the normal, is zero.
Collinear(l) ==
  \/ NormSq(Qb(l)) = 0
  \/ NormSq(Cross(Qb(l), VSub(VAdd(P3(l), P4(l)), VAdd(P1(l), P1(l))))) = 0

\* C2: Process on a long enough landmark list whose reference points are
\* coincident or collinear (qb or n of zero length) fails with
\* DegenerateGeometryError and emits nothing.
C2_DegenerateRejected ==
  \A i \in FullCalls :
    Collinear(calls[i].input.landmarks) =>
      /\ calls[i].status = "DegenerateGeometryError"
      /\ calls[i].out = <<>>

C8_WidthHeight ==
  \A i \in FullCalls :
    LET l == calls[i].input.landmarks
    IN \A k \in DOMAIN calls[i].out :
         LET h == calls[i].out[k].head_data
         IN /\ h.width >= 0
            /\ h.height >= 0
            /\ h.width * h.width = NormSq(VSub(P1(l), P2(l)))
            /\ 4 * h.height * h.height =
                 NormSq(VSub(VAdd(P1(l), P2(l)), VAdd(P3(l), P4(l))))

\* C9: every emitted result has width >= 0 and height >= 0.
C9_NonNegative ==
  \A j \in DOMAIN outputs :
    /\ outputs[j].data.head_data.width >= 0
    /\ outputs[j].data.head_data.height >= 0

\* C9's case: a result has been emitted.
C9_Witness == Len(outputs) >= 1 /\ outputs[1].data.has_head_data

\* degrees = n * 180 and radians = n * pi for one n, so
\* degrees * pi = radians * 180; with 3.14159 < pi < 3.14160 the product
\* radians * 180 lies between degrees * 3.14159 and degrees * 3.14160.
SameAngle(deg, rad) ==
  IF deg = 0 THEN rad = 0
  ELSE IF deg > 0
  THEN deg * 314159 < rad * 180 * 100000 /\ rad * 180 * 100000 < deg * 314160
  ELSE deg * 314160 < rad * 180 * 100000 /\ rad * 180 * 100000 < deg * 314159

\* C10: in every emitted result the rotation in degrees and the rotation in
\* radians are one normalized value times 180 and times pi, axis by axis,
\* and every degrees component is within [-180, 180] (1800 tenths).
C10_RotationConsistent ==
  \A j \in DOMAIN outputs :
    LET h == outputs[j].data.head_data
    IN /\ SameAngle(h.degrees.x, h.x)
       /\ SameAngle(h.degrees.y, h.y)
       /\ SameAngle(h.degrees.z, h.z)
       /\ \A d \in {h.degrees.x, h.degrees.y, h.degrees.z} : Abs(d) <= 1800

(***************************************************************************)
(* Claims about the head-pose algorithm (under SpecPose).                  *)
(***************************************************************************)
\* The rotation of the pose the latest estimate produced, if it did.
Produced == poseCall = "estimate" /\ Len(poseOut.pose) = 1

\* C4 as claimed: every component of rotationRadiansNormalized of a
\* produced pose lies in (-1, 1].
C4_RangeHalfOpen ==
  Produced =>
    \A i \in 1..3 :
      /\ -NormOne < poseOut.pose[1].rotationRadiansNormalized[i]
      /\ poseOut.pose[1].rotationRadiansNormalized[i] <= NormOne

\* C4 as amended: every component of rotationRadiansNormalized of a
\* produced pose lies in [-1, 1]; -1 is produced (x or z of an angle +pi,
\* negated).
C4_RangeClosed ==
  Produced =>
    \A i \in 1..3 :
      /\ -NormOne <= poseOut.pose[1].rotationRadiansNormalized[i]
      /\ poseOut.pose[1].rotationRadiansNormalized[i] <= NormOne

\* C4's case: a pose whose x is -1, from the roll-like angle alpha = +pi.
C4_Witness ==
  /\ Produced
  /\ Alpha(poseIn) = PI
  /\ poseOut.pose[1].rotationRadiansNormalized[1] = -NormOne

\* a is an odd multiple of pi.
OddPi(a) == a % TWO_PI = PI

\* C5 as claimed: the wrap function returns a value in (-1, 1], and two
\* angles a multiple of 2 pi apart are mapped to the same value.
C5_WrapCanonical ==
  poseCall = "wrap" =>
    /\ -NormOne < wrapOut.norm1
    /\ wrapOut.norm1 <= NormOne
    /\ wrapOut.norm1 = wrapOut.norm2

\* C5 as amended: the wrap function returns a value in [-1, 1]; it returns
\* -1 exactly on the negative odd multiples of pi and +1 exactly on the
\* positive ones; and two angles a multiple of 2 pi apart are mapped to the
\* same value unless they are odd multiples of pi of opposite sign.
C5_WrapClosedRange ==
  poseCall = "wrap" =>
    LET a == angleIn
        b == angleIn + angleTurns * TWO_PI
    IN /\ -NormOne <= wrapOut.norm1
       /\ wrapOut.norm1 <= NormOne
       /\ wrapOut.norm1 = -NormOne <=> (OddPi(a) /\ a < 0)
       /\ wrapOut.norm1 = NormOne <=> (OddPi(a) /\ a > 0)
       /\ (~OddPi(a) \/ (a < 0 <=> b < 0)) => wrapOut.norm1 = wrapOut.norm2

\* C5's case: an angle more than a full turn out, compared with the angle
\* some full turns away, the two odd multiples of pi of opposite sign.
C5_Witness ==
  /\ poseCall = "wrap"
  /\ angleIn > TWO_PI
  /\ angleTurns < 0
  /\ OddPi(angleIn)
  /\ angleIn + angleTurns * TWO_PI < 0
  /\ wrapOut.norm1 = NormOne
  /\ wrapOut.norm2 = -NormOne

\* C6: on an angle already in (-pi, pi] the wrap step returns the angle
\* unchanged, and the wrap step applied twice gives what it gives once.
C6_WrapIdempotent ==
  poseCall = "wrap" =>
    /\ (-PI < angleIn /\ angleIn <= PI) => wrapOut.first = angleIn
    /\ wrapOut.twice = wrapOut.first

\* C6's cases: the wrap step on +pi itself, and on an angle it changes.
C6_Witness ==
  /\ poseCall = "wrap"
  /\ angleIn = PI
  /\ wrapOut.first = PI
  /\ wrapOut.twice = PI

(***************************************************************************)
(* Claims about the stream of results (under Spec).                        *)
(***************************************************************************)
\* The packets on the output stream that carry the timestamp of call i.
PacketsOf(i) == {j \in DOMAIN outputs : outputs[j].ts = calls[i].ts}

\* C11 as claimed: every call that returned OK has produced exactly one
\* result for that call.
C11_OnePerSuccess ==
  \A i \in DOMAIN calls :
    calls[i].status = "OK" => Cardinality(PacketsOf(i)) = 1

\* C11 as amended: a call that returned OK has produced exactly one result
\* for that call if its input packet held a landmark list, and none if its
\* input packet was empty; never more than one.
C11_OnePerListCall ==
  \A i \in DOMAIN calls :
    calls[i].status = "OK" =>
      Cardinality(PacketsOf(i)) = (IF calls[i].input.empty THEN 0 ELSE 1)

\* C11's case: two successful calls, one on a list and one on an empty
\* packet, with one result on the stream.
C11_Witness ==
  /\ Len(calls) = 2
  /\ calls[1].status = "OK" /\ ~calls[1].input.empty
  /\ calls[2].status = "OK" /\ calls[2].input.empty
  /\ Len(outputs) = 1

\* The timestamps of the calls on a landmark list, in call order.
RECURSIVE ListCallStamps(_)
ListCallStamps(n) ==
  IF n = 0 THEN <<>>
  ELSE IF calls[n].input.empty THEN ListCallStamps(n - 1)
  ELSE Append(ListCallStamps(n - 1), calls[n].ts)

\* C15: a call on an empty packet returns OK and adds no packet; a call on
\* a landmark list adds exactly one packet at its input timestamp; so the
\* output stream holds one packet per non-empty input, in input order, with
\* the inputs' timestamps.
C15_OnePacketPerInput ==
  /\ \A i \in DOMAIN calls :
       calls[i].input.empty => calls[i].status = "OK" /\ calls[i].out = <<>>
  /\ [j \in DOMAIN outputs |-> outputs[j].ts] = ListCallStamps(Len(calls))
  /\ \A j \in DOMAIN outputs :
       \E i \in ListCalls :
         calls[i].ts = outputs[j].ts /\ calls[i].out = <<outputs[j].data>>

\* C15's case: an empty packet and then a landmark list, so that the
\* result's timestamp is not its place on the stream.
C15_Witness ==
  /\ Len(calls) = 2
  /\ calls[1].input.empty /\ ~calls[2].input.empty
  /\ Len(outputs) = 1
  /\ outputs[1].ts = calls[2].ts
  /\ outputs[1].ts # 1

(***************************************************************************)
(* Claims about the graph host and HolisticTrackingGpu (under SpecGraph).  *)
(***************************************************************************)
\* C13: GetContract returns OK for a node configured as in the header's
\* example (input tag NORM_LANDMARKS, output tag KALIDOKIT_DATA).
C13_ExampleAccepted ==
  (contract.status # "none" /\ contract.config = ExampleConfig) =>
    contract.status = "OK"

\* How often the delegate has received a method for delivery id.
ReceivedCount(method, id) ==
  Cardinality({k \in DOMAIN received :
                 received[k].method = method /\ received[k].id = id})

\* C14: for every non-empty packet the graph has delivered on the
\* kalidokit_data stream (to an object whose delegate is set), the delegate
\* has received one didOutputKalidokitData call carrying it.  The callback
\* runs to its end within the delivery, so the call is due in the state
\* the delivery leaves.
C14_KalidokitDataForwarded ==
  \A i \in DOMAIN delivered :
    (/\ delivered[i].kind = "packet"
     /\ delivered[i].stream = kKalidokitOutputStream
     /\ ~delivered[i].empty
     /\ delivered[i].delegate) =>
      ReceivedCount("didOutputKalidokitData", delivered[i].id) = 1

\* C16: the delegate receives a pixel buffer exactly when the callback's
\* stream name is the graph output stream ("output_video"): a buffer from
\* any other stream is never forwarded, and a forwarded buffer is forwarded
\* once.  (With the delegate nil there is no receiver, and nothing is
\* received.)
C16_PixelBufferFiltered ==
  \A i \in DOMAIN delivered :
    delivered[i].kind = "pixelBuffer" =>
      ReceivedCount("didOutputPixelBuffer", delivered[i].id) =
        (IF delivered[i].stream = "output_video" /\ delivered[i].delegate
         THEN 1 ELSE 0)

\* C16's case: a buffer from output_video forwarded once, and a buffer from
\* another stream, delivered to the same delegate, not forwarded.
C16_Witness ==
  \E i, j \in DOMAIN delivered :
    /\ delivered[i].kind = "pixelBuffer" /\ delivered[j].kind = "pixelBuffer"
    /\ delivered[i].delegate /\ delivered[j].delegate
    /\ delivered[i].stream = "output_video"
    /\ delivered[j].stream = "kalidokit_data"
    /\ ReceivedCount("didOutputPixelBuffer", delivered[i].id) = 1
    /\ ReceivedCount("didOutputPixelBuffer", delivered[j].id) = 0

(***************************************************************************)
(* Claims about Process statement by statement (under SpecSteps).          *)
(***************************************************************************)
\* The messages as values: what a reader of the packet sees.
DegreesValue(p) == [x |-> heap[p].x, y |-> heap[p].y, z |-> heap[p].z]

HeadDataValue(p) ==
  [x |-> heap[p].x, y |-> heap[p].y, z |-> heap[p].z,
   width |-> heap[p].width, height |-> heap[p].height,
   has_degrees |-> heap[p].sub \in ObjIds,
   degrees |-> IF heap[p].sub \in ObjIds THEN DegreesValue(heap[p].sub)
               ELSE NewDegrees]

KalidokitDataValue(p) ==
  [has_head_data |-> heap[p].sub \in ObjIds,
   head_data |-> IF heap[p].sub \in ObjIds THEN HeadDataValue(heap[p].sub)
                 ELSE NewHeadData]

\* The messages a packet of call t reaches.
Reached(t) ==
  UNION {Chain(heap, cc[t].outputs[k].ptr) : k \in DOMAIN cc[t].outputs}

\* The packets of call t are those of the call run alone.
SameAsAlone(t) ==
  LET alone == Emitted(cc[t].input, cc[t].ts)
  IN /\ cc[t].status = "OK"
     /\ Len(cc[t].outputs) = Len(alone)
     /\ \A k \in DOMAIN cc[t].outputs :
          /\ cc[t].outputs[k].ptr \in ObjIds
          /\ \A o \in Reached(t) : heap[o].state = "live"
          /\ cc[t].outputs[k].ts = alone[k].ts
          /\ KalidokitDataValue(cc[t].outputs[k].ptr) = alone[k].data

\* C12: calls of Process that run at the same time on their own inputs,
\* under every interleaving of their statements, each end with the result
\* of the call run alone, and no location is read or written by two calls.
C12_ConcurrentCallsIndependent ==
  /\ \A t \in Threads : pc[t] = "done" => SameAsAlone(t)
  /\ \A t, u \in Threads : t # u => touched[t] \cap touched[u] = {}

\* C12's case: two calls on different inputs have interleaved and both
\* have returned, each with a packet.
C12_Witness ==
  /\ overlap
  /\ \A t \in Threads : pc[t] = "done" /\ Len(cc[t].outputs) = 1
  /\ cc[1].ts # cc[2].ts

\* Who is to delete message o: a unique_ptr holding it, a raw pointer that
\* took it from release() and has not handed it on, the parent message it
\* is a sub-message of, or the output packet it was added to.
Owners(o) ==
  {c \in Cells : c[2] \in UniquePtrs /\ locals[c] = o}
    \cup {c \in owning : locals[c] = o}
    \cup {p \in ObjIds : heap[p].state = "live" /\ heap[p].sub = o}
    \cup {Context(t) : t \in {u \in Threads :
                               \E k \in DOMAIN cc[u].outputs :
                                 cc[u].outputs[k].ptr = o}}

\* C17: at every point of Process each allocated message has exactly one
\* owner (after set_allocated_* the parent, not a unique_ptr), and no
\* message is deleted twice.
C17_SingleOwner ==
  \A o \in ObjIds :
    /\ heap[o].state = "live" => Cardinality(Owners(o)) = 1
    /\ heap[o].state # "live" => Owners(o) = {}
    /\ frees[o] <= 1

\* C17's case: a call has returned, its HeadData owned by its KalidokitData
\* alone, its HeadData_Degrees by the HeadData alone, and the KalidokitData
\* by the output packet alone.
C17_Witness ==
  \E t \in Threads :
    /\ pc[t] = "done"
    /\ Owners(<<t, "HeadData_Degrees">>) = {<<t, "HeadData">>}
    /\ Owners(<<t, "HeadData">>) = {<<t, "KalidokitData">>}
    /\ Owners(<<t, "KalidokitData">>) = {Context(t)}

====
